---- MODULE Spec2Model ----
(***************************************************************************)
(* Model of src/app.py: the ingestion flow (embed_documents_in_pinecone),  *)
(* the chatbot flow (initialize_chatbot, chatbot_page's submit handler,    *)
(* filtered_retriever), the taxonomy helpers (get_selected_subfolders, the *)
(* sub-folder creation of document_upload_page) and the three things they  *)
(* share: the backing index, the persisted BM25 file and the taxonomy file.*)
(***************************************************************************)
EXTENDS Integers, Sequences, FiniteSets, TLC

(* ------------------------------ bounds -------------------------------- *)

\* ingestion requests started over a run
MaxIngest == 2
\* values picked in one multiselect
MaxSel == 2

(* ----------------------------- universes ------------------------------ *)

\* upload sessions (each runs document_upload_page) and chatbot sessions
Uploaders == {"u1", "u2"}
Sessions == {"s1"}

\* the uploads tried: what RecursiveCharacterTextSplitter + preprocess_text
\* make of the file (the sequence of its normalized chunk texts), and the
\* choices in the folder and sub-folder select boxes
Uploads ==
  {[content |-> <<"t1", "t2">>, folder |-> "c1", sub |-> "2023"],
   [content |-> <<"t2">>, folder |-> "c2", sub |-> "None"]}

\* names typed into the new-sub-folder box
NewSubfolderNames == {"2024"}

\* texts typed into the main-question box
Questions == {"", "q"}

ALL == "ALL"

\* full_bm25_values.json when it is missing, and when it does not parse
NoFile == [kind |-> "absent", params |-> {}]
Corrupt == [kind |-> "corrupt", params |-> {}]

\* the session defaults of chatbot_page (alpha 0.3 in tenths)
DefaultAlpha == 3
DefaultTopK == 60

\* positions of the two sliders: 0.0 to 1.0, and 10 to 200
AlphaValues == {0, DefaultAlpha, 7, 10}
TopKValues == {10, DefaultTopK, 200}

\* a bm25_encoder variable not yet assigned
NoEnc == [corpus |-> {}]

(* ------------------------------- state -------------------------------- *)

VARIABLES
  idxExists,   \* pc.list_indexes() holds INDEX_NAME
  idxReady,    \* pc.describe_index(INDEX_NAME).status["ready"]
  index,       \* the index: id -> [text, metadata, sparse]
  encFile,     \* full_bm25_values.json: NoFile, Corrupt or a dumped encoder
  taxonomy,    \* folder_structure.json, data[0]: folder -> list of sub-folders
  ipc,         \* per uploader: where embed_documents_in_pinecone stands
  idocs,       \* per uploader: the docs argument (the chunks)
  ienc,        \* per uploader: bm25_encoder
  spc,         \* per session: where chatbot_page stands
  vs,          \* per session: st.session_state.vectorstore
  sreq,        \* per session: the submitted form
  sopts,       \* per session: get_selected_subfolders' data and result
  sfilter,     \* per session: filter_dict of the running retrieval
  sres,        \* per session: the documents the retrieval returned
  sout,        \* per session: what the page showed for the submission
  calls,       \* per session: collaborator calls made for the submission
  sused,       \* per session: alpha and top_k of the retriever the
               \*              submission's get_relevant_documents ran on
  alpha,       \* per session: st.session_state.alpha, in tenths
  top_k,       \* per session: st.session_state.top_k
  fitters,        \* history: the processes that ran BM25Encoder().fit
  staleFit,       \* history: a fit ran while the index held vectors built
                  \*          with another fitted state
  unreadyWrite,   \* history: add_texts was issued with the index not ready
  needlessCreate, \* history: create_index was issued with the index present
  rerun,          \* history: add_texts wrote chunks the index already held
  tampered,       \* history: the encoder file was removed or damaged
  nIngest         \* ingestion requests started

storeVars == <<idxExists, idxReady, index, encFile, taxonomy>>
ingVars == <<ipc, idocs, ienc>>
sliderVars == <<alpha, top_k>>
sessVars == <<spc, vs, sreq, sopts, sfilter, sres, sout, calls, sused, sliderVars>>
histVars == <<fitters, staleFit, unreadyWrite, needlessCreate, rerun, tampered>>
countVars == <<nIngest>>
vars == <<storeVars, ingVars, sessVars, histVars, countVars>>

(* ------------------------------ helpers ------------------------------- *)

Range(s) == {s[i] : i \in DOMAIN s}

\* list(d.keys()) of folder_structure.json's first object, in file order
FolderKeys == <<"root", "c1", "c2">>

\* the default structure plus two folders
InitTaxonomy ==
  [k \in Range(FolderKeys) |->
     IF k = "c1" THEN <<"2023", "2024">>
     ELSE IF k = "c2" THEN <<"2025">> ELSE <<>>]

\* the 50 of is_valid_doc
MinContentLength == 50

\* len(content.strip()) of a chunk text: t1 is a full window of the splitter,
\* t2 the short remainder that ends a file (or a file of one short line)
ContentLength(content) == IF content = "t2" THEN 30 ELSE 1200

\* is_valid_doc (lines 68-73); nothing in app.py calls it
is_valid_doc(doc) == ContentLength(doc.content) > MinContentLength

\* split_documents: one record per chunk, ids counted from 1
split_documents(content, metadata) ==
  [i \in DOMAIN content |->
     [id |-> i, content |-> content[i], metadata |-> metadata]]

\* BM25Encoder().fit(corpus): the fitted state is a function of the corpus
BM25Fit(corpus) == [corpus |-> Range(corpus)]

\* bm25_encoder.dump / BM25Encoder().load
BM25Dump(enc) == [kind |-> "bm25", params |-> enc.corpus]
BM25Load(file) == [corpus |-> file.params]
Loadable(file) == file.kind = "bm25"

PlaceholderCorpus == <<"placeholder text">>

\* the id add_texts gives a text when the caller passes none
hash_text(text) == <<"sha256", text>>

\* add_texts as it would be with an id drawn afresh for every vector written
add_texts_fresh_ids(idx, docs, enc) ==
  LET base == Cardinality(DOMAIN idx)
      ids == {<<"uuid", docs[i].content, base + i>> : i \in DOMAIN docs}
  IN [k \in DOMAIN idx \cup ids |->
        IF k \in ids
        THEN [text |-> k[2],
              metadata |-> docs[k[3] - base].metadata,
              sparse |-> enc]
        ELSE idx[k]]

\* vectorstore.add_texts(all_chunks, metadatas=all_metadatas): one vector per
\* chunk, keyed by the id of its text, upserted over what the index holds
add_texts(idx, docs, enc) ==
  LET ids == {hash_text(docs[i].content) : i \in DOMAIN docs}
      last(k) == CHOOSE i \in DOMAIN docs :
                   /\ hash_text(docs[i].content) = k
                   /\ \A j \in DOMAIN docs :
                        hash_text(docs[j].content) = k => j <= i
  IN [k \in DOMAIN idx \cup ids |->
        IF k \in ids
        THEN [text |-> docs[last(k)].content,
              metadata |-> docs[last(k)].metadata,
              sparse |-> enc]
        ELSE idx[k]]

\* the index holds a sparse vector built with a fitted state other than enc
BuiltWithAnother(idx, enc) == \E k \in DOMAIN idx : idx[k].sparse # enc

\* the index holds every chunk of docs, with its text and its metadata
AlreadyHeld(idx, docs) ==
  \A i \in DOMAIN docs :
    \E k \in DOMAIN idx :
      idx[k].text = docs[i].content /\ idx[k].metadata = docs[i].metadata

\* the entries of the index as the claims count them: text and metadata
Entries(idx) ==
  {[text |-> idx[k].text, metadata |-> idx[k].metadata] : k \in DOMAIN idx}

EmptyIndex == [k \in {} |-> [text |-> "", metadata |-> [category |-> "", year |-> ""], sparse |-> NoEnc]]

\* st.session_state.vectorstore = None
NoVs == [built |-> FALSE, sparse_encoder |-> NoEnc, alpha |-> 0, top_k |-> 0]

\* PineconeHybridSearchRetriever(alpha=alpha, sparse_encoder=bm25_encoder,
\* top_k=top_k) of initialize_chatbot
PineconeHybridSearchRetriever(a, bm25_encoder, k) ==
  [built |-> TRUE, sparse_encoder |-> bm25_encoder, alpha |-> a, top_k |-> k]

\* no retrieval has run for the submission
NoUsed == [issued |-> FALSE, alpha |-> 0, top_k |-> 0]

\* a slider callback that leaves the cached retriever in place
on_alpha_change_keeps(vectorstore) == vectorstore

\* the slider callbacks: st.session_state.vectorstore = None
on_alpha_change(vectorstore) == NoVs
on_top_k_change(vectorstore) == NoVs

\* the form before any submission
NoReq == [main_query |-> "", categories |-> <<>>, sub_categories |-> <<>>]
NoOpts == [data |-> [k \in {} |-> <<>>], subfolder_list |-> <<>>]
NoFilter == [category |-> [on |-> FALSE, in |-> <<>>],
             year |-> [on |-> FALSE, in |-> <<>>]]

\* what st.multiselect can return: up to MaxSel distinct options, in the
\* order they were picked
Selections(options) ==
  {sel \in UNION {[1..n -> options] : n \in 0..MaxSel} :
     \A i, j \in DOMAIN sel : i # j => sel[i] # sel[j]}

\* get_selected_subfolders (lines 218-229)
RECURSIVE extend_subfolders(_, _, _)
extend_subfolders(subfolder_list, selected_folders, folder_dict) ==
  IF selected_folders = <<>> THEN subfolder_list
  ELSE LET folder == Head(selected_folders)
       IN extend_subfolders(
            IF folder \in DOMAIN folder_dict
            THEN subfolder_list \o folder_dict[folder]
            ELSE subfolder_list,
            Tail(selected_folders), folder_dict)

get_selected_subfolders(selected_folders, folder_dict) ==
  IF selected_folders = <<>> THEN <<ALL>>
  ELSE extend_subfolders(<<ALL>>, selected_folders, folder_dict)

\* filter_dict as it would be with the ALL test left out for sub-categories
filter_dict_all_is_a_value(categories, sub_categories) ==
  [category |->
     IF categories # <<ALL>> /\ categories # <<>>
     THEN [on |-> TRUE, in |-> categories]
     ELSE [on |-> FALSE, in |-> <<>>],
   year |->
     IF sub_categories # <<>>
     THEN [on |-> TRUE, in |-> sub_categories]
     ELSE [on |-> FALSE, in |-> <<>>]]

\* filtered_retriever's filter_dict (lines 165-171); a key the dict lacks
\* is a field with on = FALSE
filter_dict(categories, sub_categories) ==
  [category |->
     IF categories # <<ALL>> /\ categories # <<>>
     THEN [on |-> TRUE, in |-> categories]
     ELSE [on |-> FALSE, in |-> <<>>],
   year |->
     IF sub_categories # <<ALL>> /\ sub_categories # <<>>
     THEN [on |-> TRUE, in |-> sub_categories]
     ELSE [on |-> FALSE, in |-> <<>>]]

\* the store's metadata filter: {"field": {"$in": [...]}} on every key given
Matches(metadata, f) ==
  /\ f.category.on => metadata.category \in Range(f.category.in)
  /\ f.year.on => metadata.year \in Range(f.year.in)

\* vs.get_relevant_documents(query, filter=filter_dict): the entries that
\* pass the filter (top_k is at least 10, more than the index ever holds here)
get_relevant_documents(idx, f) ==
  {[page_content |-> idx[k].text, metadata |-> idx[k].metadata] :
     k \in {j \in DOMAIN idx : Matches(idx[j].metadata, f)}}

\* the submit handler as it would be without the check of the question
Validate_no_question_check(main_query, categories, sub_categories) ==
  IF categories = <<>> /\ sub_categories = <<>> THEN "no_selection"
  ELSE "ok"

\* the submit handler as it would be with "or" between the two selections
Validate_either_empty(main_query, categories, sub_categories) ==
  IF main_query = "" THEN "no_question"
  ELSE IF categories = <<>> \/ sub_categories = <<>> THEN "no_selection"
  ELSE "ok"

\* the two checks of the submit handler (lines 508-514)
Validate(main_query, categories, sub_categories) ==
  IF main_query = "" THEN "no_question"
  ELSE IF categories = <<>> /\ sub_categories = <<>> THEN "no_selection"
  ELSE "ok"

(* ------------------------------ ingestion ----------------------------- *)

\* document_upload_page, the process button (lines 348-383): the folder and
\* sub-folder come from the select boxes, the chunks from split_documents
StartIngest(u) ==
  /\ ipc[u] = "idle"
  /\ nIngest < MaxIngest
  /\ \E up \in Uploads :
       /\ up.folder \in Range(Tail(FolderKeys))
       /\ up.sub \in {"None"} \cup Range(taxonomy[up.folder])
       /\ idocs' = [idocs EXCEPT ![u] =
                     split_documents(up.content,
                        [category |-> up.folder,
                         year |-> IF up.sub = "None" THEN "" ELSE up.sub])]
  /\ ipc' = [ipc EXCEPT ![u] = "list"]
  /\ nIngest' = nIngest + 1
  /\ UNCHANGED <<storeVars, ienc, sessVars, histVars>>

\* line 93-95: list the indexes and branch on the name being among them
ListIndexes(u) ==
  /\ ipc[u] = "list"
  /\ ipc' = [ipc EXCEPT ![u] = IF idxExists THEN "exists" ELSE "create"]
  /\ UNCHANGED <<storeVars, idocs, ienc, sessVars, histVars, countVars>>

\* line 96-101: create_index; the store refuses a name it already holds
CreateIndex(u) ==
  /\ ipc[u] = "create"
  /\ needlessCreate' = (needlessCreate \/ idxExists)
  /\ IF idxExists
     THEN /\ ipc' = [ipc EXCEPT ![u] = "error"]
          /\ UNCHANGED <<idxExists, idxReady>>
     ELSE /\ idxExists' = TRUE
          /\ idxReady' = FALSE
          /\ ipc' = [ipc EXCEPT ![u] = "poll"]
  /\ UNCHANGED <<index, encFile, taxonomy, idocs, ienc, sessVars,
                 fitters, staleFit, unreadyWrite, rerun, tampered, countVars>>

\* line 102: the loop test, describe_index(...).status["ready"]
DescribeIndex(u) ==
  /\ ipc[u] = "poll"
  /\ ipc' = [ipc EXCEPT ![u] = IF idxReady THEN "exists" ELSE "sleep"]
  /\ UNCHANGED <<storeVars, idocs, ienc, sessVars, histVars, countVars>>

\* line 103: time.sleep(1), then the loop test again
Sleep(u) ==
  /\ ipc[u] = "sleep"
  /\ ipc' = [ipc EXCEPT ![u] = "poll"]
  /\ UNCHANGED <<storeVars, idocs, ienc, sessVars, histVars, countVars>>

\* the backing store finishes building the index
StoreReady ==
  /\ idxExists
  /\ ~idxReady
  /\ idxReady' = TRUE
  /\ UNCHANGED <<idxExists, index, encFile, taxonomy, ingVars, sessVars,
                 histVars, countVars>>

\* line 106: os.path.exists("full_bm25_values.json")
CheckEncoderFile(u) ==
  /\ ipc[u] = "exists"
  /\ ipc' = [ipc EXCEPT ![u] = IF encFile # NoFile THEN "load" ELSE "fit"]
  /\ UNCHANGED <<storeVars, idocs, ienc, sessVars, histVars, countVars>>

\* line 108: BM25Encoder().load; it raises on a missing or damaged file
LoadEncoder(u) ==
  /\ ipc[u] = "load"
  /\ IF Loadable(encFile)
     THEN /\ ienc' = [ienc EXCEPT ![u] = BM25Load(encFile)]
          /\ ipc' = [ipc EXCEPT ![u] = "add"]
     ELSE /\ ipc' = [ipc EXCEPT ![u] = "error"]
          /\ UNCHANGED ienc
  /\ UNCHANGED <<storeVars, idocs, sessVars, histVars, countVars>>

\* line 111-112: fit on the texts of this request's chunks
FitEncoder(u) ==
  /\ ipc[u] = "fit"
  /\ LET all_texts == [i \in DOMAIN idocs[u] |-> idocs[u][i].content]
     IN /\ ienc' = [ienc EXCEPT ![u] = BM25Fit(all_texts)]
        /\ fitters' = fitters \cup {u}
        /\ staleFit' = (staleFit \/ BuiltWithAnother(index, BM25Fit(all_texts)))
  /\ ipc' = [ipc EXCEPT ![u] = "dump"]
  /\ UNCHANGED <<storeVars, idocs, sessVars, unreadyWrite, needlessCreate,
                 rerun, tampered, countVars>>

\* line 113: bm25_encoder.dump
DumpEncoder(u) ==
  /\ ipc[u] = "dump"
  /\ encFile' = BM25Dump(ienc[u])
  /\ ipc' = [ipc EXCEPT ![u] = "add"]
  /\ UNCHANGED <<idxExists, idxReady, index, taxonomy, idocs, ienc,
                 sessVars, histVars, countVars>>

\* line 115-131: embed the chunks and upsert them; the embedding service
\* or the store can fail the call, and a store that is not ready refuses it
AddTexts(u) ==
  /\ ipc[u] = "add"
  /\ unreadyWrite' = (unreadyWrite \/ ~idxReady)
  /\ \E ok \in BOOLEAN :
       IF ok /\ idxReady
       THEN /\ index' = add_texts(index, idocs[u], ienc[u])
            /\ rerun' = (rerun \/ AlreadyHeld(index, idocs[u]))
            /\ ipc' = [ipc EXCEPT ![u] = "done"]
       ELSE /\ ipc' = [ipc EXCEPT ![u] = "error"]
            /\ UNCHANGED <<index, rerun>>
  /\ UNCHANGED <<idxExists, idxReady, encFile, taxonomy, idocs, ienc,
                 sessVars, fitters, staleFit, needlessCreate, tampered, countVars>>

\* line 384-386: st.success or st.error, and the script run ends
EndIngest(u) ==
  /\ ipc[u] \in {"done", "error"}
  /\ ipc' = [ipc EXCEPT ![u] = "idle"]
  /\ idocs' = [idocs EXCEPT ![u] = <<>>]
  /\ ienc' = [ienc EXCEPT ![u] = NoEnc]
  /\ UNCHANGED <<storeVars, sessVars, histVars, countVars>>

\* somebody outside the program removes or damages full_bm25_values.json
TamperEncoderFile ==
  /\ Loadable(encFile)
  /\ \E f \in {NoFile, Corrupt} : encFile' = f
  /\ tampered' = TRUE
  /\ UNCHANGED <<idxExists, idxReady, index, taxonomy, ingVars, sessVars,
                 fitters, staleFit, unreadyWrite, needlessCreate, rerun, countVars>>

(* ------------------------------- chatbot ------------------------------ *)

\* chatbot_page lines 452-463 with initialize_chatbot lines 194-201: the
\* clients are built, then the encoder file is loaded; an exception in the
\* clients ends the script run with st.error
InitLoad(s) ==
  /\ spc[s] = "idle"
  /\ ~vs[s].built
  /\ \E ok \in BOOLEAN :
       IF ~ok
       THEN /\ sout' = [sout EXCEPT ![s] = "InitError"]
            /\ UNCHANGED <<spc, vs>>
       ELSE IF Loadable(encFile)
       THEN /\ vs' = [vs EXCEPT ![s] =
                   PineconeHybridSearchRetriever(alpha[s], BM25Load(encFile),
                                                 top_k[s])]
            /\ sout' = [sout EXCEPT ![s] = "Ready"]
            /\ UNCHANGED spc
       ELSE /\ spc' = [spc EXCEPT ![s] = "initfit"]
            /\ UNCHANGED <<vs, sout>>
  /\ UNCHANGED <<storeVars, ingVars, sreq, sopts, sfilter, sres, calls, sused,
                 sliderVars, histVars, countVars>>

\* line 205: the except branch fits on the placeholder corpus
InitFit(s) ==
  /\ spc[s] = "initfit"
  /\ vs' = [vs EXCEPT ![s] =
              [NoVs EXCEPT !.sparse_encoder = BM25Fit(PlaceholderCorpus)]]
  /\ fitters' = fitters \cup {s}
  /\ staleFit' = (staleFit \/ BuiltWithAnother(index, BM25Fit(PlaceholderCorpus)))
  /\ spc' = [spc EXCEPT ![s] = "initdump"]
  /\ UNCHANGED <<storeVars, ingVars, sreq, sopts, sfilter, sres, sout, calls,
                 sused, sliderVars, unreadyWrite, needlessCreate, rerun, tampered, countVars>>

\* line 206-216: dump the placeholder encoder, build the retriever
InitDump(s) ==
  /\ spc[s] = "initdump"
  /\ encFile' = BM25Dump(vs[s].sparse_encoder)
  /\ vs' = [vs EXCEPT ![s] =
              PineconeHybridSearchRetriever(alpha[s], vs[s].sparse_encoder,
                                            top_k[s])]
  /\ sout' = [sout EXCEPT ![s] = "Ready"]
  /\ spc' = [spc EXCEPT ![s] = "idle"]
  /\ UNCHANGED <<idxExists, idxReady, index, taxonomy, ingVars, sreq, sopts, sfilter,
                 sres, calls, sused, sliderVars, histVars, countVars>>

\* lines 466-514: the selections, the question, the submit button and the
\* two validation checks
Submit(s) ==
  /\ spc[s] = "idle"
  /\ vs[s].built
  /\ \E main_query \in Questions, categories \in Selections(Range(FolderKeys)) :
       \E sub_categories \in
            Selections(Range(get_selected_subfolders(categories, taxonomy))) :
         /\ sreq' = [sreq EXCEPT ![s] =
                       [main_query |-> main_query, categories |-> categories,
                        sub_categories |-> sub_categories]]
         /\ sopts' = [sopts EXCEPT ![s] =
                       [data |-> taxonomy,
                        subfolder_list |->
                          get_selected_subfolders(categories, taxonomy)]]
         /\ IF Validate(main_query, categories, sub_categories) = "ok"
            THEN /\ spc' = [spc EXCEPT ![s] = "retrieve"]
                 /\ sout' = [sout EXCEPT ![s] = "Pending"]
            ELSE /\ sout' = [sout EXCEPT ![s] = "ValidationError"]
                 /\ spc' = [spc EXCEPT ![s] = "shown"]
  /\ calls' = [calls EXCEPT ![s] = {}]
  /\ sfilter' = [sfilter EXCEPT ![s] = NoFilter]
  /\ sres' = [sres EXCEPT ![s] = {}]
  /\ sused' = [sused EXCEPT ![s] = NoUsed]
  /\ UNCHANGED <<storeVars, ingVars, vs, sliderVars, histVars, countVars>>

\* lines 164-176 run by chain.invoke: build filter_dict, embed the question,
\* query the index; either collaborator can raise (caught at line 565)
Retrieve(s) ==
  /\ spc[s] = "retrieve"
  /\ sfilter' = [sfilter EXCEPT ![s] =
                   filter_dict(sreq[s].categories, sreq[s].sub_categories)]
  /\ \E outcome \in {"embed_fails", "query_fails", "ok"} :
       /\ calls' = [calls EXCEPT ![s] =
            IF outcome = "embed_fails" THEN {"embed"} ELSE {"embed", "query"}]
       /\ IF outcome = "ok"
          THEN /\ sres' = [sres EXCEPT ![s] =
                     get_relevant_documents(index, sfilter'[s])]
               /\ spc' = [spc EXCEPT ![s] = "generate"]
               /\ UNCHANGED sout
          ELSE /\ sout' = [sout EXCEPT ![s] = "Error"]
               /\ spc' = [spc EXCEPT ![s] = "shown"]
               /\ UNCHANGED sres
  /\ sused' = [sused EXCEPT ![s] =
                 [issued |-> TRUE, alpha |-> vs[s].alpha, top_k |-> vs[s].top_k]]
  /\ UNCHANGED <<storeVars, ingVars, vs, sreq, sopts, sliderVars, histVars, countVars>>

\* lines 185-187 and 559-566: prompt, llm, parser; the answer or st.error
Generate(s) ==
  /\ spc[s] = "generate"
  /\ calls' = [calls EXCEPT ![s] = @ \cup {"generate"}]
  /\ \E ok \in BOOLEAN :
       sout' = [sout EXCEPT ![s] = IF ok THEN "Answer" ELSE "Error"]
  /\ spc' = [spc EXCEPT ![s] = "shown"]
  /\ UNCHANGED <<storeVars, ingVars, vs, sreq, sopts, sfilter, sres, sused,
                 sliderVars, histVars, countVars>>

\* the script run ends (return at 510/514, or the end of the page); the next
\* run starts from an empty form
EndQuery(s) ==
  /\ spc[s] = "shown"
  /\ spc' = [spc EXCEPT ![s] = "idle"]
  /\ sreq' = [sreq EXCEPT ![s] = NoReq]
  /\ sopts' = [sopts EXCEPT ![s] = NoOpts]
  /\ sfilter' = [sfilter EXCEPT ![s] = NoFilter]
  /\ sres' = [sres EXCEPT ![s] = {}]
  /\ sout' = [sout EXCEPT ![s] = "Ready"]
  /\ calls' = [calls EXCEPT ![s] = {}]
  /\ sused' = [sused EXCEPT ![s] = NoUsed]
  /\ UNCHANGED <<storeVars, ingVars, vs, sliderVars, histVars, countVars>>

(* ------------------------------ sliders ------------------------------- *)

\* lines 413-414 and 424-433: the user moves the alpha slider of an idle
\* page; the callback runs, then the rerun stores the slider's value
AlphaSlider(s) ==
  /\ spc[s] = "idle"
  /\ \E v \in AlphaValues \ {alpha[s]} :
       alpha' = [alpha EXCEPT ![s] = v]
  /\ vs' = [vs EXCEPT ![s] = on_alpha_change(vs[s])]
  /\ UNCHANGED <<storeVars, ingVars, spc, sreq, sopts, sfilter, sres, sout,
                 calls, sused, top_k, histVars, countVars>>

\* lines 416-417 and 438-447: the same for the top_k slider
TopKSlider(s) ==
  /\ spc[s] = "idle"
  /\ \E v \in TopKValues \ {top_k[s]} :
       top_k' = [top_k EXCEPT ![s] = v]
  /\ vs' = [vs EXCEPT ![s] = on_top_k_change(vs[s])]
  /\ UNCHANGED <<storeVars, ingVars, spc, sreq, sopts, sfilter, sres, sout,
                 calls, sused, alpha, histVars, countVars>>

(* ------------------------------ taxonomy ------------------------------ *)

\* document_upload_page lines 306-328: the create-sub-folder button
CreateSubfolder ==
  /\ \E selected_folder \in Range(Tail(FolderKeys)),
        new_subfolder_name \in NewSubfolderNames :
       taxonomy' =
         IF new_subfolder_name \notin Range(taxonomy[selected_folder])
         THEN [taxonomy EXCEPT ![selected_folder] = Append(@, new_subfolder_name)]
         ELSE taxonomy
  /\ UNCHANGED <<idxExists, idxReady, index, encFile, ingVars, sessVars,
                 histVars, countVars>>

(* --------------------------- specification ---------------------------- *)

Init ==
  /\ idxExists = FALSE
  /\ idxReady = FALSE
  /\ index = EmptyIndex
  /\ encFile = NoFile
  /\ taxonomy = InitTaxonomy
  /\ ipc = [u \in Uploaders |-> "idle"]
  /\ idocs = [u \in Uploaders |-> <<>>]
  /\ ienc = [u \in Uploaders |-> NoEnc]
  /\ spc = [s \in Sessions |-> "idle"]
  /\ vs = [s \in Sessions |-> NoVs]
  /\ sreq = [s \in Sessions |-> NoReq]
  /\ sopts = [s \in Sessions |-> NoOpts]
  /\ sfilter = [s \in Sessions |-> NoFilter]
  /\ sres = [s \in Sessions |-> {}]
  /\ sout = [s \in Sessions |-> "None"]
  /\ calls = [s \in Sessions |-> {}]
  /\ sused = [s \in Sessions |-> NoUsed]
  /\ alpha = [s \in Sessions |-> DefaultAlpha]
  /\ top_k = [s \in Sessions |-> DefaultTopK]
  /\ fitters = {}
  /\ staleFit = FALSE
  /\ unreadyWrite = FALSE
  /\ needlessCreate = FALSE
  /\ rerun = FALSE
  /\ nIngest = 0
  /\ tampered = FALSE

IngestStep(u) ==
  \/ StartIngest(u)
  \/ ListIndexes(u)
  \/ CreateIndex(u)
  \/ DescribeIndex(u)
  \/ Sleep(u)
  \/ CheckEncoderFile(u)
  \/ LoadEncoder(u)
  \/ FitEncoder(u)
  \/ DumpEncoder(u)
  \/ AddTexts(u)
  \/ EndIngest(u)

InitStep(s) ==
  \/ InitLoad(s)
  \/ InitFit(s)
  \/ InitDump(s)

QueryStep(s) ==
  \/ Submit(s)
  \/ Retrieve(s)
  \/ Generate(s)
  \/ EndQuery(s)

\* ingestion requests racing each other and chatbot initializations
IngestNext ==
  \/ \E u \in Uploaders : IngestStep(u)
  \/ \E s \in Sessions : InitStep(s)
  \/ StoreReady
  \/ TamperEncoderFile

IngestSpec == Init /\ [][IngestNext]_vars

\* the processes take their steps; the store and the file system owe nothing
FairIngestSpec ==
  /\ IngestSpec
  /\ \A u \in Uploaders : WF_vars(IngestStep(u))
  /\ \A s \in Sessions : WF_vars(InitStep(s))

\* no chatbot page has been opened yet
NoSessionStarted ==
  \A s \in Sessions : spc[s] = "idle" /\ ~vs[s].built /\ sout[s] = "None"

\* uploads by one user first, then the chatbot sessions
QueryNext ==
  \/ NoSessionStarted /\ IngestStep("u1")
  \/ \E s \in Sessions : InitStep(s)
  \/ \E s \in Sessions : QueryStep(s)
  \/ StoreReady
  \/ CreateSubfolder

QuerySpec == Init /\ [][QueryNext]_vars

SliderStep(s) ==
  \/ AlphaSlider(s)
  \/ TopKSlider(s)

\* one chatbot session: slider changes, reruns and submissions
SliderNext ==
  \/ \E s \in Sessions : InitStep(s)
  \/ \E s \in Sessions : QueryStep(s)
  \/ \E s \in Sessions : SliderStep(s)

SliderSpec == Init /\ [][SliderNext]_vars

(* ------------------------------- claims ------------------------------- *)

\* a submission is being handled or its result is on the page
InRequest(s) == spc[s] \in {"retrieve", "generate", "shown"}

NoDuplicates(l) == \A i, j \in DOMAIN l : i # j => l[i] # l[j]

\* C1: the sparse encoder is never fitted while the index holds sparse
\* vectors built with another fitted state, whether or not the persisted
\* file went missing or unreadable in between.
C1_NoRefitOverStoredVectors == ~staleFit

\* C2: when the encoder file is left alone, at most one process performs
\* fit+persist, and once every process has finished, every stored vector was
\* built with the state the file holds.
C2_SingleFitter ==
  ~tampered =>
    /\ Cardinality(fitters) <= 1
    /\ ( /\ \A u \in Uploaders : ipc[u] = "idle"
         /\ \A s \in Sessions : spc[s] = "idle"
         /\ Loadable(encFile) )
       => \A k \in DOMAIN index : index[k].sparse = BM25Load(encFile)

\* C3: no step of the query flow (chatbot initialization, validation,
\* retrieval, generation), succeeding or failing, changes the persisted
\* encoder state or the index contents.
C3_QueryFlowReadOnly ==
  [][(\E s \in Sessions : InitStep(s) \/ QueryStep(s))
       => (encFile' = encFile /\ index' = index)]_vars

\* C4: every add_texts is issued to an index the store has reported ready,
\* and every create_index is issued for an index that is absent.
C4_NoWriteBeforeReady == ~unreadyWrite /\ ~needlessCreate

\* C5: an ingestion request that waits for the index it created leaves the
\* wait, ready or not.
C5_PollTerminates ==
  \A u \in Uploaders : (ipc[u] = "poll") ~> (ipc[u] \notin {"poll", "sleep"})

\* C6: an ingestion whose chunks the index already holds, with the same
\* text and metadata, leaves the index with the same set of entries and the
\* same number of them.
C6_IngestionIdempotent ==
  [][\A u \in Uploaders :
       (AddTexts(u) /\ ipc'[u] = "done" /\ AlreadyHeld(index, idocs[u]))
         => /\ Entries(index') = Entries(index)
            /\ Cardinality(DOMAIN index') = Cardinality(DOMAIN index)
            /\ DOMAIN index' = DOMAIN index]_vars

\* a document of two chunks was ingested again over its own entries, and the
\* index holds two entries
C6_Witness ==
  /\ rerun
  /\ Cardinality(DOMAIN index) = 2
  /\ \A k \in DOMAIN index : index[k].metadata.category = "c1"

\* C7: for category and for sub-category alike, the filter of a retrieval
\* leaves the field free when the selection is empty or is [ALL], and
\* otherwise admits exactly the selected values; every document returned has
\* its metadata inside each constrained field's selection; an empty category
\* selection with a non-empty sub-category selection leaves category free.
C7_FilterSemantics ==
  \A s \in Sessions :
    (InRequest(s) /\ calls[s] # {}) =>
      LET categories == sreq[s].categories
          sub_categories == sreq[s].sub_categories
          f == sfilter[s]
      IN /\ f.category.on <=> ~(categories = <<>> \/ categories = <<ALL>>)
         /\ f.year.on <=> ~(sub_categories = <<>> \/ sub_categories = <<ALL>>)
         /\ f.category.on => Range(f.category.in) = Range(categories)
         /\ f.year.on => Range(f.year.in) = Range(sub_categories)
         /\ \A d \in sres[s] :
              /\ f.category.on => d.metadata.category \in Range(categories)
              /\ f.year.on => d.metadata.year \in Range(sub_categories)
         /\ (categories = <<>> /\ sub_categories # <<>>) => ~f.category.on

\* a retrieval with c1 picked, and ALL and one sub-folder picked, returned a
\* document
C7_Witness ==
  \E s \in Sessions :
    /\ spc[s] = "generate"
    /\ sreq[s].categories = <<"c1">>
    /\ Len(sreq[s].sub_categories) = 2
    /\ ALL \in Range(sreq[s].sub_categories)
    /\ sfilter[s].year.on
    /\ sres[s] # {}

\* C8: get_selected_subfolders returns ALL plus the union of the sub-folders
\* of every selected folder the taxonomy holds, each value once; [ALL] when
\* nothing is selected.
C8_AvailableSubCategories ==
  \A s \in Sessions :
    InRequest(s) =>
      LET selected == Range(sreq[s].categories) \cap DOMAIN sopts[s].data
          result == sopts[s].subfolder_list
      IN /\ Range(result) =
              {ALL} \cup UNION {Range(sopts[s].data[c]) : c \in selected}
         /\ NoDuplicates(result)
         /\ sreq[s].categories = <<>> => result = <<ALL>>

\* C9: a submission with an empty main question is rejected with the
\* validation warning whatever is selected, and no embedding, index query or
\* generation call is made for it.
C9_EmptyQuestionRejected ==
  \A s \in Sessions :
    (InRequest(s) /\ sreq[s].main_query = "") =>
      /\ spc[s] = "shown"
      /\ sout[s] = "ValidationError"
      /\ calls[s] = {}

\* an empty question was submitted with a category and a sub-folder picked
C9_Witness ==
  \E s \in Sessions :
    /\ spc[s] = "shown"
    /\ sreq[s].main_query = ""
    /\ sreq[s].categories # <<>>
    /\ sreq[s].sub_categories # <<>>
    /\ sout[s] = "ValidationError"

\* C10: a submission with a main question is rejected with the validation
\* warning exactly when both selections are empty; rejected, it makes no
\* retrieval or generation call; with a selection, it goes on to retrieval.
C10_SelectionRequired ==
  \A s \in Sessions :
    (InRequest(s) /\ sreq[s].main_query # "") =>
      LET none == sreq[s].categories = <<>> /\ sreq[s].sub_categories = <<>>
      IN /\ (sout[s] = "ValidationError") <=> none
         /\ none => (spc[s] = "shown" /\ calls[s] = {})
         /\ ~none => (spc[s] = "retrieve" \/ "embed" \in calls[s])

\* a question was submitted with no category and only ALL as sub-folder, and
\* its retrieval ran
C10_Witness ==
  \E s \in Sessions :
    /\ sreq[s].main_query # ""
    /\ sreq[s].categories = <<>>
    /\ sreq[s].sub_categories = <<ALL>>
    /\ "query" \in calls[s]

\* C11: no chunk whose normalized content is shorter than the minimum
\* content length is ever in the index: every chunk is checked by
\* is_valid_doc and dropped before encoding and upsert when it fails.
C11_NoShortChunkIndexed ==
  \A k \in DOMAIN index :
    /\ ContentLength(index[k].text) >= MinContentLength
    /\ is_valid_doc([content |-> index[k].text])

\* C12: every retrieval a session runs is made on a retriever built with
\* the alpha and top_k the session state holds at that moment, and a cached
\* retriever never carries other values: a slider change clears it and the
\* next query waits for the rebuild.
C12_RetrieverMatchesSliders ==
  \A s \in Sessions :
    /\ sused[s].issued =>
         /\ sused[s].alpha = alpha[s]
         /\ sused[s].top_k = top_k[s]
    /\ vs[s].built =>
         /\ vs[s].alpha = alpha[s]
         /\ vs[s].top_k = top_k[s]
    /\ InRequest(s) => vs[s].built

\* a retrieval queried the index after both sliders were moved off their
\* defaults
C12_Witness ==
  \E s \in Sessions :
    /\ sused[s].issued
    /\ "query" \in calls[s]
    /\ sused[s].alpha # DefaultAlpha
    /\ sused[s].top_k # DefaultTopK

====
